---- MODULE Spec2Model ----
(***************************************************************************)
(* Model of src/main.rs: TrieNode<T> (a label, an optional value and a     *)
(* HashMap of owned children) and Trie<T> (a root TrieNode driven by       *)
(* insert / get_value).                                                    *)
(*                                                                         *)
(* A TrieNode is the record [key_char_, value_, children_]; children_ is a *)
(* function whose domain is the set of map keys.  Option<X> is the record  *)
(* [some |-> FALSE] or [some |-> TRUE, val |-> x].  A `&mut` reference     *)
(* into the tree is modelled by computing the referenced node's new value  *)
(* and writing it back into its owner.  `unwrap()` on None aborts the      *)
(* process: it is reported in the `panic` field of a call's result.        *)
(***************************************************************************)
EXTENDS Naturals, Sequences, FiniteSets

\* ---------------------------------------------------------------- bounds
\* Longest key the harness passes to Trie::insert / Trie::get_value.
MaxKeyLen == 2

\* Number of calls made on the object under test in one behaviour.
MaxOps == 3

\* ---------------------------------------------------------------- inputs
\* Characters that occur in keys and labels (chars are modelled as numbers).
Chars == {1, 2}

\* '\0', the label Trie::new gives the root.
Sentinel == 0

\* Option<X>
None == [some |-> FALSE]

Some(x) == [some |-> TRUE, val |-> x]

\* Every &str the harness may pass as a key, the empty string included.
Keys == UNION {[1..n -> Chars] : n \in 0..MaxKeyLen}

\* Payloads.  T is a type parameter without bounds: the code moves values
\* and never inspects them, so a value is a token.  As in main, each key
\* comes with a value of its own (here the key read as a number in base 3,
\* which no other key has); Other is a value that belongs to no key.
Other == 0

RECURSIVE KeyValue(_)
KeyValue(key) ==
    IF key = <<>> THEN Other ELSE Head(key) + 3 * KeyValue(Tail(key))

\* Values of the nodes main hands to insert_child_node.
OptValues == {None, Some(Other)}

\* ------------------------------------------------------- HashMap<char, _>
HashMap_new == [c \in {} |-> None]

HashMap_contains_key(m, k) == k \in DOMAIN m

HashMap_is_empty(m) == DOMAIN m = {}

\* get_mut: the entry under k, if any
HashMap_get_mut(m, k) == IF k \in DOMAIN m THEN Some(m[k]) ELSE None

\* insert: the new map, and the value previously stored under k
HashMap_insert(m, k, v) ==
    [map |-> [x \in (DOMAIN m) \cup {k} |-> IF x = k THEN v ELSE m[x]],
     old |-> IF k \in DOMAIN m THEN Some(m[k]) ELSE None]

\* remove: the new map, and the value that was stored under k
HashMap_remove(m, k) ==
    [map |-> [x \in (DOMAIN m) \ {k} |-> m[x]],
     old |-> IF k \in DOMAIN m THEN Some(m[k]) ELSE None]

\* ------------------------------------------------------------ TrieNode<T>
TrieNode_new(key_char, value) ==
    [key_char_ |-> key_char, value_ |-> value, children_ |-> HashMap_new]

has_child(self, key_char) == HashMap_contains_key(self.children_, key_char)

has_children(self) == ~HashMap_is_empty(self.children_)

get_key_char(self) == self.key_char_

get_child_node(self, key_char) == HashMap_get_mut(self.children_, key_char)

\* Mutant: the duplicate check is missing, an existing child is overwritten.
insert_child_node_overwrite(self, key_char, child) ==
    IF key_char # get_key_char(child)
    THEN [self |-> self, ret |-> None]
    ELSE LET ins == HashMap_insert(self.children_, key_char, child)
             new == [self EXCEPT !.children_ = ins.map]
         IN  [self |-> new,
              ret  |-> IF ins.old.some THEN None ELSE get_child_node(new, key_char)]

\* Mutant: the label check is missing, the child is stored under key_char
\* whatever its own label.
insert_child_node_nolabel(self, key_char, child) ==
    IF has_child(self, key_char)
    THEN [self |-> self, ret |-> None]
    ELSE LET ins == HashMap_insert(self.children_, key_char, child)
             new == [self EXCEPT !.children_ = ins.map]
         IN  [self |-> new,
              ret  |-> IF ins.old.some THEN None ELSE get_child_node(new, key_char)]

\* The node after the call, and the returned Option<&mut TrieNode>
\* (the referenced child, as it is when the call returns).
insert_child_node(self, key_char, child) ==
    IF has_child(self, key_char)
    THEN [self |-> self, ret |-> None]
    ELSE IF key_char # get_key_char(child)
    THEN [self |-> self, ret |-> None]
    ELSE LET ins == HashMap_insert(self.children_, key_char, child)
             new == [self EXCEPT !.children_ = ins.map]
         IN  [self |-> new,
              ret  |-> IF ins.old.some THEN None ELSE get_child_node(new, key_char)]

\* Mutant: the whole map is cleared instead of one entry being removed.
remove_child_node_clear(self, key_char) ==
    [self |-> [self EXCEPT !.children_ = HashMap_new],
     ret  |-> HashMap_remove(self.children_, key_char).old]

\* The node after the call, and the returned Option<TrieNode>.
remove_child_node(self, key_char) ==
    LET rem == HashMap_remove(self.children_, key_char)
    IN  [self |-> [self EXCEPT !.children_ = rem.map], ret |-> rem.old]

set_key_char(self, key_char) == [self EXCEPT !.key_char_ = key_char]

get_children(self) == self.children_

TrieNode_get_value(self) == self.value_

set_value(self, value) == [self EXCEPT !.value_ = Some(value)]

\* The owner after a write through the `&mut` reference to its child under c.
WriteBack(owner, c, child) == [owner EXCEPT !.children_[c] = child]

\* ---------------------------------------------------------------- Trie<T>
Trie_new == [root_ |-> TrieNode_new(Sentinel, None)]

\* Result of a walk below current_node: the node after the walk, the value
\* insert returns, and whether an unwrap() aborted.
Walked(node, ret, panic) == [node |-> node, ret |-> ret, panic |-> panic]

\* The result of a walk that went on below owner's child under c: the child
\* the cursor mutated is the owner's child, the rest is passed up.
Descended(owner, c, sub) == [sub EXCEPT !.node = WriteBack(owner, c, @)]

\* Mutant: a terminal node that exists without a value is left without one.
insert_last_forget(current_node, last_char, value) ==
    IF has_child(current_node, last_char)
    THEN LET got == get_child_node(current_node, last_char)
         IN  IF ~got.some THEN Walked(current_node, FALSE, TRUE)
             ELSE IF TrieNode_get_value(got.val).some
             THEN Walked(current_node, FALSE, FALSE)
             ELSE Walked(current_node, TRUE, FALSE)
    ELSE LET r == insert_child_node(current_node, last_char,
                                    TrieNode_new(last_char, Some(value)))
         IN  IF ~r.ret.some THEN Walked(r.self, FALSE, TRUE)
             ELSE Walked(r.self, TRUE, FALSE)

\* Mutant: a duplicate key is accepted, its value overwritten.
insert_last_upsert(current_node, last_char, value) ==
    IF has_child(current_node, last_char)
    THEN LET got == get_child_node(current_node, last_char)
         IN  IF ~got.some THEN Walked(current_node, FALSE, TRUE)
             ELSE Walked(WriteBack(current_node, last_char,
                                   set_value(got.val, value)), TRUE, FALSE)
    ELSE LET r == insert_child_node(current_node, last_char,
                                    TrieNode_new(last_char, Some(value)))
         IN  IF ~r.ret.some THEN Walked(r.self, FALSE, TRUE)
             ELSE Walked(r.self, TRUE, FALSE)

\* Mutant: a duplicate key is reported (false) but its value is overwritten.
insert_last_clobber(current_node, last_char, value) ==
    IF has_child(current_node, last_char)
    THEN LET got == get_child_node(current_node, last_char)
         IN  IF ~got.some THEN Walked(current_node, FALSE, TRUE)
             ELSE Walked(WriteBack(current_node, last_char,
                                   set_value(got.val, value)),
                         ~TrieNode_get_value(got.val).some, FALSE)
    ELSE LET r == insert_child_node(current_node, last_char,
                                    TrieNode_new(last_char, Some(value)))
         IN  IF ~r.ret.some THEN Walked(r.self, FALSE, TRUE)
             ELSE Walked(r.self, TRUE, FALSE)

\* Mutant: a terminal node that exists without a value is replaced by a
\* fresh node carrying the value (its subtree is dropped).
insert_last_replace(current_node, last_char, value) ==
    IF has_child(current_node, last_char)
    THEN LET got == get_child_node(current_node, last_char)
         IN  IF ~got.some THEN Walked(current_node, FALSE, TRUE)
             ELSE IF TrieNode_get_value(got.val).some
             THEN Walked(current_node, FALSE, FALSE)
             ELSE Walked(WriteBack(current_node, last_char,
                                   TrieNode_new(last_char, Some(value))),
                         TRUE, FALSE)
    ELSE LET r == insert_child_node(current_node, last_char,
                                    TrieNode_new(last_char, Some(value)))
         IN  IF ~r.ret.some THEN Walked(r.self, FALSE, TRUE)
             ELSE Walked(r.self, TRUE, FALSE)

\* Trie::insert after the loop: the step for the last character of the key.
insert_last(current_node, last_char, value) ==
    IF has_child(current_node, last_char)
    THEN LET got == get_child_node(current_node, last_char)
         IN  IF ~got.some THEN Walked(current_node, FALSE, TRUE)
             ELSE IF TrieNode_get_value(got.val).some
             THEN Walked(current_node, FALSE, FALSE)
             ELSE Walked(WriteBack(current_node, last_char,
                                   set_value(got.val, value)), TRUE, FALSE)
    ELSE LET r == insert_child_node(current_node, last_char,
                                    TrieNode_new(last_char, Some(value)))
         IN  IF ~r.ret.some THEN Walked(r.self, FALSE, TRUE)
             ELSE Walked(r.self, TRUE, FALSE)

RECURSIVE insert_walk_fresh(_, _, _, _)
\* Mutant: an intermediate node is created even when one exists already.
insert_walk_fresh(current_node, key, i, value) ==
    LET c == key[i]
    IN  IF i = Len(key) THEN insert_last(current_node, c, value)
        ELSE Descended([current_node EXCEPT !.children_ =
                           HashMap_insert(@, c, TrieNode_new(c, None)).map], c,
                       insert_walk_fresh(TrieNode_new(c, None), key, i + 1, value))

RECURSIVE insert_walk_valued(_, _, _, _)
\* Mutant: an intermediate node is created carrying the value.
insert_walk_valued(current_node, key, i, value) ==
    LET c == key[i]
    IN  IF i = Len(key) THEN insert_last(current_node, c, value)
        ELSE IF ~has_child(current_node, c)
        THEN LET r == insert_child_node(current_node, c,
                                        TrieNode_new(c, Some(value)))
             IN  IF ~r.ret.some THEN Walked(r.self, FALSE, TRUE)
                 ELSE Descended(r.self, c,
                                insert_walk_valued(r.ret.val, key, i + 1, value))
        ELSE LET got == get_child_node(current_node, c)
             IN  IF ~got.some THEN Walked(current_node, FALSE, TRUE)
                 ELSE Descended(current_node, c,
                                insert_walk_valued(got.val, key, i + 1, value))

RECURSIVE insert_walk(_, _, _, _)
\* Trie::insert from the i-th character of the key (1-based) with the cursor
\* on current_node: the loop body for every character but the last, then
\* the step for the last one.
insert_walk(current_node, key, i, value) ==
    LET c == key[i]
    IN  IF i = Len(key) THEN insert_last(current_node, c, value)
        ELSE IF ~has_child(current_node, c)
        THEN LET r == insert_child_node(current_node, c, TrieNode_new(c, None))
             IN  IF ~r.ret.some THEN Walked(r.self, FALSE, TRUE)
                 ELSE Descended(r.self, c,
                                insert_walk(r.ret.val, key, i + 1, value))
        ELSE LET got == get_child_node(current_node, c)
             IN  IF ~got.some THEN Walked(current_node, FALSE, TRUE)
                 ELSE Descended(current_node, c,
                                insert_walk(got.val, key, i + 1, value))

\* insert's result once the walk w from the root is over.
Returned(self, w) ==
    [self |-> [self EXCEPT !.root_ = w.node], ret |-> w.ret, panic |-> w.panic]

\* The trie after the call, the returned bool, and whether the call aborted.
Trie_insert(self, key, value) ==
    IF key = <<>>
    THEN [self |-> self, ret |-> FALSE, panic |-> FALSE]
    ELSE Returned(self, insert_walk(self.root_, key, 1, value))

RECURSIVE get_value_walk_lenient(_, _, _)
\* Mutant: a missing child ends the walk instead of the lookup.
get_value_walk_lenient(current_node, key, i) ==
    IF i > Len(key) THEN TrieNode_get_value(current_node)
    ELSE IF ~has_child(current_node, key[i])
    THEN TrieNode_get_value(current_node)
    ELSE get_value_walk_lenient(get_child_node(current_node, key[i]).val, key, i + 1)

RECURSIVE get_value_walk(_, _, _)
\* Trie::get_value from the i-th character of the key with the cursor on
\* current_node.
get_value_walk(current_node, key, i) ==
    IF i > Len(key) THEN TrieNode_get_value(current_node)
    ELSE IF ~has_child(current_node, key[i]) THEN None
    ELSE get_value_walk(get_child_node(current_node, key[i]).val, key, i + 1)

\* The returned Option<&T>; the trie is not changed.
Trie_get_value(self, key) ==
    IF key = <<>> THEN None ELSE get_value_walk(self.root_, key, 1)

\* ------------------------------------------------------------------ state
VARIABLES
    subject,    \* which object main's assertions drive: "TrieNode" or "Trie"
    node,       \* main's `root`: the TrieNode under test
    trie,       \* main's `trie`: the Trie under test
    last,       \* the last call made: its name, arguments and result
    inserted,   \* the <<key, value>> pairs for which trie.insert returned true
    opCount,    \* number of calls made so far
    panicked    \* an unwrap() on None aborted the process

vars == <<subject, node, trie, last, inserted, opCount, panicked>>

\* Children main may hand to insert_child_node: a fresh node, or a fresh
\* node that was given one child of its own.
ChildInputs ==
    {TrieNode_new(k, v) : k \in Chars, v \in OptValues}
    \cup {insert_child_node(TrieNode_new(k, v), g, TrieNode_new(g, None)).self :
             k \in Chars, v \in OptValues, g \in Chars}

\* Values main passes with a key: the key's own value, and once the key has
\* been accepted also another one.
ValuesFor(key) ==
    IF key \in {kv[1] : kv \in inserted} THEN {KeyValue(key), Other}
    ELSE {KeyValue(key)}

Init ==
    /\ subject \in {"TrieNode", "Trie"}
    /\ node \in {TrieNode_new(k, None) : k \in Chars}
    /\ trie = Trie_new
    /\ last = [op |-> "new"]
    /\ inserted = {}
    /\ opCount = 0
    /\ panicked = FALSE

Running(s) == subject = s /\ ~panicked /\ opCount < MaxOps

\* root.insert_child_node(key_char, child)
InsertChildNode(key_char, child) ==
    /\ Running("TrieNode")
    /\ \E r \in {insert_child_node(node, key_char, child)} :
           /\ node' = r.self
           /\ last' = [op |-> "insert_child_node", key_char |-> key_char,
                       child |-> child, ret |-> r.ret]
    /\ opCount' = opCount + 1
    /\ UNCHANGED <<subject, trie, inserted, panicked>>

\* root.remove_child_node(key_char)
RemoveChildNode(key_char) ==
    /\ Running("TrieNode")
    /\ \E r \in {remove_child_node(node, key_char)} :
           /\ node' = r.self
           /\ last' = [op |-> "remove_child_node", key_char |-> key_char,
                       ret |-> r.ret]
    /\ opCount' = opCount + 1
    /\ UNCHANGED <<subject, trie, inserted, panicked>>

\* trie.insert(key, value)
Insert(key, value) ==
    /\ Running("Trie")
    /\ \E r \in {Trie_insert(trie, key, value)} :
           /\ trie' = r.self
           /\ panicked' = r.panic
           /\ last' = [op |-> "insert", key |-> key, value |-> value,
                       ret |-> r.ret]
           /\ inserted' = IF r.ret /\ ~r.panic
                          THEN inserted \cup {<<key, value>>}
                          ELSE inserted
    /\ opCount' = opCount + 1
    /\ UNCHANGED <<subject, node>>

\* trie.get_value(key)
GetValue(key) ==
    /\ Running("Trie")
    /\ last' = [op |-> "get_value", key |-> key, ret |-> Trie_get_value(trie, key)]
    /\ opCount' = opCount + 1
    /\ UNCHANGED <<subject, node, trie, inserted, panicked>>

Next ==
    \/ \E c \in Chars, child \in ChildInputs : InsertChildNode(c, child)
    \/ \E c \in Chars : RemoveChildNode(c)
    \/ \E k \in Keys : \E v \in ValuesFor(k) : Insert(k, v)
    \/ \E k \in Keys : GetValue(k)

Spec == Init /\ [][Next]_vars

\* ------------------------------------------------------------ observation
\* Keys for which trie.insert has returned true.
InsertedKeys == {kv[1] : kv \in inserted}

\* p is a proper prefix of k
IsProperPrefix(p, k) == Len(p) < Len(k) /\ SubSeq(k, 1, Len(p)) = p

\* The non-empty prefixes of k, k included.
Prefixes(k) == {SubSeq(k, 1, n) : n \in 1..Len(k)}

RECURSIVE NodeAt(_, _)
\* The node reached from n along the path p, if there is one.
NodeAt(n, p) ==
    IF p = <<>> THEN Some(n)
    ELSE IF has_child(n, Head(p)) THEN NodeAt(get_children(n)[Head(p)], Tail(p))
    ELSE None

\* The paths from the root on which the trie t has a node.
Paths(t) == {p \in Keys : NodeAt(t.root_, p).some}

ValueAt(t, p) == TrieNode_get_value(NodeAt(t.root_, p).val)

LabelAt(t, p) == get_key_char(NodeAt(t.root_, p).val)

\* The step is a call of op (every call counts in opCount).
Called(op) == opCount' # opCount /\ last'.op = op

\* ----------------------------------------------------------------- claims
\* C1. Round-trip: an insert of a non-empty key that no insert has yet
\* accepted returns true; after it get_value returns the inserted value for
\* that key and for every key accepted before, whatever the order and
\* whether or not the keys are prefixes of one another; and a get_value
\* call on an accepted key returns the value inserted with it.
C1_RoundTrip ==
    [][ /\ (Called("insert") /\ last'.key # <<>> /\ last'.key \notin InsertedKeys)
           => /\ last'.ret = TRUE
              /\ Trie_get_value(trie', last'.key) = Some(last'.value)
              /\ \A kv \in inserted : Trie_get_value(trie', kv[1]) = Some(kv[2])
        /\ Called("get_value")
           => \A kv \in inserted : kv[1] = last'.key => last'.ret = Some(kv[2])
      ]_vars

\* Two keys, one a proper prefix of the other, were accepted and the last
\* call looked one of them up.
C1_Witness ==
    /\ last.op = "get_value"
    /\ last.key \in InsertedKeys
    /\ last.ret.some
    /\ \E k \in InsertedKeys :
          IsProperPrefix(last.key, k) \/ IsProperPrefix(k, last.key)

\* C2. Duplicate insert is rejected: an insert of a key that an earlier
\* insert accepted returns false, whatever the value and whatever was
\* inserted in between, and get_value of that key still returns the value
\* of the accepted insert.
C2_DuplicateRejected ==
    [][ (Called("insert") /\ last'.key \in InsertedKeys)
        => /\ last'.ret = FALSE
           /\ \A kv \in inserted :
                 kv[1] = last'.key => Trie_get_value(trie', kv[1]) = Some(kv[2])
      ]_vars

\* A key was inserted again with another value, after another key was
\* accepted, and the call returned false.
C2_Witness ==
    /\ last.op = "insert"
    /\ last.ret = FALSE
    /\ \E kv \in inserted : kv[1] = last.key /\ kv[2] # last.value
    /\ Cardinality(InsertedKeys) >= 2

\* C3. An insert that returns false leaves the trie as it was, and insert
\* returns false exactly for the empty key and for a key accepted before.
C3_FailedInsertNoEffect ==
    [][ Called("insert")
        => /\ last'.ret = FALSE => trie' = trie
           /\ last'.ret = FALSE <=> (last'.key = <<>> \/ last'.key \in InsertedKeys)
      ]_vars

\* A duplicate insert with a new value failed on a trie that has nodes.
C3_Witness ==
    /\ last.op = "insert"
    /\ last.ret = FALSE
    /\ last.key # <<>>
    /\ ValueAt(trie, last.key) # Some(last.value)

\* C4. Absent lookups: get_value returns None for the empty key and for
\* every key no insert accepted, proper prefixes of accepted keys included.
C4_AbsentLookups ==
    /\ Trie_get_value(trie, <<>>) = None
    /\ \A k \in Keys \ InsertedKeys : Trie_get_value(trie, k) = None
    /\ (last.op = "get_value" /\ last.key \notin InsertedKeys) => last.ret = None

\* The last call looked up a proper prefix of an accepted key that was not
\* itself accepted (its node exists).
C4_Witness ==
    /\ last.op = "get_value"
    /\ last.key # <<>>
    /\ last.key \notin InsertedKeys
    /\ \E k \in InsertedKeys : IsProperPrefix(last.key, k)
    /\ last.key \in Paths(trie)

\* C5. insert_child_node(c, child) returns None and leaves the node as it
\* was when a child exists under c or child's label differs from c;
\* otherwise it returns the inserted child, the node has that child under c
\* and its other children are as before.
C5_InsertChildNode ==
    [][ Called("insert_child_node")
        => LET c == last'.key_char
               child == last'.child
           IN  IF has_child(node, c) \/ get_key_char(child) # c
               THEN /\ last'.ret = None
                    /\ get_children(node') = get_children(node)
                    /\ node' = node
               ELSE /\ last'.ret = Some(child)
                    /\ has_child(node', c)
                    /\ get_child_node(node', c) = Some(child)
                    /\ DOMAIN get_children(node') = DOMAIN get_children(node) \cup {c}
                    /\ \A d \in DOMAIN get_children(node) :
                          get_children(node')[d] = get_children(node)[d]
      ]_vars

\* A child with the right label was refused because another child, not
\* equal to it, is stored under that character.
C5_Witness ==
    /\ last.op = "insert_child_node"
    /\ last.ret = None
    /\ get_key_char(last.child) = last.key_char
    /\ has_child(node, last.key_char)
    /\ get_child_node(node, last.key_char) # Some(last.child)

\* C6. After remove_child_node(c): has_child(c) is false, get_child_node(c)
\* is None, every other child is present and unchanged, has_children() is
\* true exactly when a child other than c existed, and the call returned
\* the child that was under c, or None when there was none.
C6_RemoveChildNode ==
    [][ Called("remove_child_node")
        => LET c == last'.key_char
           IN  /\ ~has_child(node', c)
               /\ get_child_node(node', c) = None
               /\ DOMAIN get_children(node') = DOMAIN get_children(node) \ {c}
               /\ \A d \in DOMAIN get_children(node) \ {c} :
                     get_child_node(node', d) = get_child_node(node, d)
               /\ has_children(node') <=> (DOMAIN get_children(node) \ {c} # {})
               /\ last'.ret = get_child_node(node, c)
               /\ get_key_char(node') = get_key_char(node)
               /\ TrieNode_get_value(node') = TrieNode_get_value(node)
      ]_vars

\* A child that has a child of its own was removed and returned, and a
\* sibling remains.
C6_Witness ==
    /\ last.op = "remove_child_node"
    /\ last.ret.some
    /\ has_children(last.ret.val)
    /\ has_children(node)

\* C7. insert is monotonic: across an insert call every node that existed
\* is still at its path with its label, and every value that was set is
\* the same; an insert that returns true creates exactly the missing nodes
\* on the path of its key (without a value, but for the terminal one),
\* sets the value on the terminal node and changes nothing else.
C7_InsertMonotonic ==
    [][ Called("insert")
        => /\ \A p \in Paths(trie) :
                 /\ p \in Paths(trie')
                 /\ LabelAt(trie', p) = LabelAt(trie, p)
                 /\ ValueAt(trie, p).some => ValueAt(trie', p) = ValueAt(trie, p)
           /\ last'.ret = TRUE
              => /\ Paths(trie') = Paths(trie) \cup Prefixes(last'.key)
                 /\ ValueAt(trie', last'.key) = Some(last'.value)
                 /\ \A p \in Paths(trie') \ {last'.key} :
                       ValueAt(trie', p) =
                          IF p \in Paths(trie) THEN ValueAt(trie, p) ELSE None
                 /\ \A p \in Paths(trie') \ Paths(trie) :
                       LabelAt(trie', p) = p[Len(p)]
      ]_vars

\* The last insert succeeded on a node that existed without a value, below
\* which a node with a value stays.
C7_Witness ==
    /\ last.op = "insert"
    /\ last.ret = TRUE
    /\ \E k \in InsertedKeys : IsProperPrefix(last.key, k)
    /\ Cardinality(Paths(trie)) >= 3

RECURSIVE LabelInv(_)
\* Below n, every child is stored under its own label.
LabelInv(n) ==
    \A c \in DOMAIN get_children(n) :
        /\ get_key_char(get_children(n)[c]) = c
        /\ LabelInv(get_children(n)[c])

\* C8. Label invariant: in the Trie under insert, and in the TrieNode under
\* insert_child_node and remove_child_node, every child is stored in its
\* parent's map under the child's own key_char.
C8_LabelInvariant ==
    /\ LabelInv(trie.root_)
    /\ LabelInv(node)

\* A call with a mismatched label was refused on a node that has a child
\* with a child of its own.
C8_Witness ==
    /\ last.op = "insert_child_node"
    /\ get_key_char(last.child) # last.key_char
    /\ \E c \in DOMAIN get_children(node) : has_children(get_children(node)[c])

\* C9. Value invariant: the root holds no value, every accepted key has a
\* node, and a node other than the root holds a value exactly when its path
\* spells an accepted key.
C9_ValueInvariant ==
    /\ TrieNode_get_value(trie.root_) = None
    /\ InsertedKeys \subseteq Paths(trie)
    /\ \A p \in Paths(trie) \ {<<>>} : ValueAt(trie, p).some <=> p \in InsertedKeys

\* The trie has a node with a value and, above it, a node without one.
C9_Witness ==
    \E k \in InsertedKeys :
        \E p \in Paths(trie) \ {<<>>} :
            IsProperPrefix(p, k) /\ ~ValueAt(trie, p).some

RECURSIVE CanonNode(_, _)
\* The node at path p, with label c, of the trie that the set `inserted`
\* determines: a child per character that continues p towards an accepted
\* key, and the value accepted with p, if any.
CanonNode(p, c) ==
    [key_char_ |-> c,
     value_    |-> IF p \in InsertedKeys
                   THEN Some((CHOOSE kv \in inserted : kv[1] = p)[2])
                   ELSE None,
     children_ |-> [d \in {x \in Chars : \E k \in InsertedKeys :
                              Append(p, x) \in Prefixes(k)}
                       |-> CanonNode(Append(p, d), d)]]

\* C10. Order-independence: the trie is the one determined by the set of
\* accepted <<key, value>> pairs alone, whatever the order of the calls, and
\* every node without a value lies on the path to an accepted key.
C10_OrderIndependent ==
    /\ trie.root_ = CanonNode(<<>>, Sentinel)
    /\ \A p \in Paths(trie) \ {<<>>} :
          ~ValueAt(trie, p).some => \E k \in InsertedKeys : IsProperPrefix(p, k)

\* A key was accepted after a longer key that it is a prefix of.
C10_Witness ==
    /\ last.op = "insert"
    /\ last.ret = TRUE
    /\ Len(last.key) >= 1
    /\ \E k \in InsertedKeys : IsProperPrefix(last.key, k)
    /\ \E k \in InsertedKeys : ~IsProperPrefix(last.key, k) /\ k # last.key

====
